---- MODULE Spec2Model ----
(***************************************************************************)
(* The ETL DAG of src/airflow/dags/etl.py: four Airflow tasks              *)
(* create_tables >> extract >> transform >> load over a CSV source, two    *)
(* staging directories and a SQLite sink reached through SqliteHook.       *)
(*                                                                         *)
(* Library behaviour the source relies on, as modelled here:               *)
(*  - Airflow runs a task when all its upstream tasks succeeded (default   *)
(*    trigger rule), retries a failed task while try_number <= retries,    *)
(*    and marks the tasks downstream of a failed task upstream_failed.     *)
(*  - SqliteHook.run and SqliteHook.get_first each open a connection of    *)
(*    their own (get_conn is sqlite3.connect), run the statement, commit   *)
(*    and close. get_first returns cursor.fetchone(): a row, i.e. a tuple. *)
(*  - SQLite's last_insert_rowid() is per connection and is 0 on a         *)
(*    connection that has inserted nothing; sqlite3 binds only None, int,  *)
(*    float, str and bytes and raises on any other parameter type.         *)
(*  - pandas.read_csv raises FileNotFoundError for a missing path and      *)
(*    EmptyDataError/ParserError for a file it cannot parse; an empty cell *)
(*    is NaN, a numeric column holds numbers.                              *)
(*  - os.listdir returns the entries in arbitrary order: the order is that *)
(*    of the directory on disk and stays as it is until entries are added. *)
(***************************************************************************)
EXTENDS Integers, Sequences, FiniteSets, TLC

VARIABLES
    source,       \* source/jobs.csv
    run,          \* number of the current DAG run
    ti,           \* task instances of the run: state and try_number
    extracted,    \* staging/extracted: file name -> content
    transformed,  \* staging/transformed: file name -> JSON document
    listing,      \* the order in which os.listdir returns staging/transformed
    catalogue,    \* the sink's tables, in creation order
    rows,         \* the sink's rows, per table, in rowid order
    lpc,          \* load: position in the task body
    todo,         \* load: the rest of os.listdir(transformed_dir)
    file_name,    \* load: the entry the loop is at
    cur,          \* load: transformed_data of the artifact in hand
    job_id,       \* load: what get_first returned
    raw,          \* a description handed to clean_description
    once,         \* clean_description(raw)
    twice,        \* clean_description(once)
    applied       \* how many of the two applications were made

vars == <<source, run, ti, extracted, transformed, listing, catalogue, rows,
          lpc, todo, file_name, cur, job_id, raw, once, twice, applied>>

pipeVars == <<source, run, ti, extracted, transformed, listing, catalogue, rows,
              lpc, todo, file_name, cur, job_id>>

cleanVars == <<raw, once, twice, applied>>

(***************************************************************************)
(* Bounds of the model.                                                    *)
(***************************************************************************)
MaxRows == 2

MaxRuns == 2

MaxLen == 3

(***************************************************************************)
(* Python values.                                                          *)
(***************************************************************************)
PyStr(s) == [type |-> "str", v |-> s]

PyInt(n) == [type |-> "int", v |-> n]

PyNaN == [type |-> "float", v |-> <<"n", "a", "n">>]

PyTuple(t) == [type |-> "tuple", v |-> t]

Digit(d) == CASE d = 0 -> "0" [] d = 1 -> "1" [] d = 2 -> "2" [] d = 3 -> "3"
              [] d = 4 -> "4" [] d = 5 -> "5" [] d = 6 -> "6" [] d = 7 -> "7"
              [] d = 8 -> "8" [] d = 9 -> "9"

RECURSIVE Decimal(_)
Decimal(n) == IF n < 10 THEN <<Digit(n)>>
              ELSE Append(Decimal(n \div 10), Digit(n % 10))

\* str(x): a str is itself, an integer its decimal digits, NaN is "nan"
str(x) == CASE x.type = "str" -> x.v
            [] x.type = "int" -> IF x.v < 0 THEN <<"-">> \o Decimal(-x.v)
                                 ELSE Decimal(x.v)
            [] x.type = "float" -> x.v

isinstance_str(x) == x.type = "str"

(***************************************************************************)
(* The source file. A readable file is a table: its columns and, per row,  *)
(* the cell of its one column. read_csv gives a column one dtype: a text   *)
(* column holds str cells and NaN for the empty ones, a numeric column     *)
(* holds numbers.                                                          *)
(***************************************************************************)
ObjectCells == {PyStr(<<" ", "a", "\n", " ", "b">>), PyNaN}

Int64Cells == {PyInt(42)}

RECURSIVE SeqsUpTo(_, _)
SeqsUpTo(S, n) == IF n = 0 THEN {<<>>}
                  ELSE LET shorter == SeqsUpTo(S, n - 1)
                       IN  shorter \cup {Append(q, e) : q \in shorter, e \in S}

DataFrames ==
    {[columns |-> {"context"}, cells |-> c] :
        c \in SeqsUpTo(ObjectCells, MaxRows) \cup SeqsUpTo(Int64Cells, MaxRows)}
    \cup {[columns |-> {"title"}, cells |-> c] :
              c \in SeqsUpTo({PyStr(<<"t">>)}, MaxRows)}

Sources == {[kind |-> "missing", df |-> [columns |-> {}, cells |-> <<>>]],
            [kind |-> "unreadable", df |-> [columns |-> {}, cells |-> <<>>]]}
           \cup {[kind |-> "csv", df |-> t] : t \in DataFrames}

\* pd.read_csv(source_file_path)
read_csv(src) == CASE src.kind = "missing" -> [raised |-> "FileNotFoundError"]
                   [] src.kind = "unreadable" -> [raised |-> "EmptyDataError"]
                   [] src.kind = "csv" -> [raised |-> "", df |-> src.df]

\* an except clause for another exception: FileNotFoundError propagates
extract_catches_other(exc) == exc = "FileExistsError"

\* except FileNotFoundError
extract_catches(exc) == exc = "FileNotFoundError"

\* row.get('context', '') of the row at 0-based position index
row_get_context(df, index) ==
    IF "context" \in df.columns THEN df.cells[index + 1] ELSE PyStr(<<>>)

(***************************************************************************)
(* File names of the staging directories: job_<index>.<ext>.               *)
(***************************************************************************)
FileName(stem, index, ext) == <<stem, index, ext>>

endswith(name, ext) == name[3] = ext

\* filename.replace('.txt', '.json')
replace_txt_json(name) == IF name[3] = "txt" THEN <<name[1], name[2], "json">> ELSE name

EmptyDir == [n \in {} |-> <<>>]

\* the directory with the files of `written` created or overwritten
WriteAll(dir, written) ==
    [n \in DOMAIN dir \cup DOMAIN written |->
        IF n \in DOMAIN written THEN written[n] ELSE dir[n]]

\* the artifacts named from the 1-based position of the row
ExtractWritesOneBased(df) ==
    [n \in {FileName("job", i, "txt") : i \in 1..Len(df.cells)} |->
        LET context == row_get_context(df, n[2] - 1)
        IN  IF isinstance_str(context) THEN context.v ELSE str(context)]

\* the files extract writes for a table: f"job_{index}.txt" <- str(context)
ExtractWrites(df) ==
    [n \in {FileName("job", i - 1, "txt") : i \in 1..Len(df.cells)} |->
        LET context == row_get_context(df, n[2])
        IN  IF isinstance_str(context) THEN context.v ELSE str(context)]

(***************************************************************************)
(* clean_description: description.strip(), then every run of whitespace    *)
(* replaced by one space.                                                  *)
(***************************************************************************)
Whitespace == {" ", "\t", "\n"}

RECURSIVE lstrip(_)
lstrip(s) == IF s # <<>> /\ Head(s) \in Whitespace THEN lstrip(Tail(s)) ELSE s

RECURSIVE rstrip(_)
rstrip(s) == IF s # <<>> /\ s[Len(s)] \in Whitespace
             THEN rstrip(SubSeq(s, 1, Len(s) - 1)) ELSE s

strip(s) == rstrip(lstrip(s))

\* re.sub(r'\s+', ' ', s): scanning left to right, a maximal run of
\* whitespace becomes one space, any other character is copied
RECURSIVE sub_whitespace_runs(_)
sub_whitespace_runs(s) ==
    IF s = <<>> THEN <<>>
    ELSE IF Head(s) \in Whitespace
         THEN <<" ">> \o sub_whitespace_runs(lstrip(s))
         ELSE <<Head(s)>> \o sub_whitespace_runs(Tail(s))

\* the runs replaced without the strip() before
clean_description_unstripped(description) == sub_whitespace_runs(description)

clean_description(description) == sub_whitespace_runs(strip(description))

(***************************************************************************)
(* transform: the JSON document written for one text artifact.             *)
(***************************************************************************)
Sections == {"job", "company", "education", "experience", "salary", "location"}

transformed_data(context) ==
    [job |-> [title |-> "job_title",
              industry |-> "job_industry",
              description |-> clean_description(context),
              employment_type |-> "job_employment_type",
              date_posted |-> "job_date_posted"],
     company |-> [name |-> "company_name", link |-> "company_linkedin_link"],
     education |-> [required_credential |-> "job_required_credential"],
     experience |-> [months_of_experience |-> "job_months_of_experience",
                     seniority_level |-> "seniority_level"],
     salary |-> [currency |-> "salary_currency",
                 min_value |-> "salary_min_value",
                 max_value |-> "salary_max_value",
                 unit |-> "salary_unit"],
     location |-> [country |-> "country",
                   locality |-> "locality",
                   region |-> "region",
                   postal_code |-> "postal_code",
                   street_address |-> "street_address",
                   latitude |-> "latitude",
                   longitude |-> "longitude"]]

\* the files transform writes: one .json per .txt of the extracted directory
TransformWrites(dir) ==
    [n \in {replace_txt_json(f) : f \in {g \in DOMAIN dir : endswith(g, "txt")}} |->
        transformed_data(dir[CHOOSE f \in DOMAIN dir :
                                 endswith(f, "txt") /\ replace_txt_json(f) = n])]

\* a document that lacks one section (a file transform did not write)
Without(doc, section) == [k \in DOMAIN doc \ {section} |-> doc[k]]

(***************************************************************************)
(* The sink: SQLite behind SqliteHook.                                     *)
(***************************************************************************)
TABLE_CREATION_QUERIES ==
    <<"job", "company", "education", "experience", "salary", "location">>

Children == <<"company", "education", "experience", "salary", "location">>

Range(q) == {q[i] : i \in DOMAIN q}

\* CREATE TABLE name, without IF NOT EXISTS: an existing table is an error
create_table(cat, name) ==
    [catalogue |-> IF name \in Range(cat) THEN cat ELSE Append(cat, name),
     raised |-> name \in Range(cat)]

\* CREATE TABLE IF NOT EXISTS name: nothing happens when the table exists
create_table_if_not_exists(cat, name) ==
    [catalogue |-> IF name \in Range(cat) THEN cat ELSE Append(cat, name),
     raised |-> FALSE]

\* for query in TABLE_CREATION_QUERIES: sqlite_hook.run(query), from query i on
RECURSIVE run_queries(_, _)
run_queries(cat, i) ==
    IF i > Len(TABLE_CREATION_QUERIES) THEN [catalogue |-> cat, raised |-> FALSE]
    ELSE LET r == create_table_if_not_exists(cat, TABLE_CREATION_QUERIES[i])
         IN  IF r.raised THEN r ELSE run_queries(r.catalogue, i + 1)

\* the named placeholders of the INSERT statement of each table
Placeholders(table) ==
    CASE table = "job" ->
            {"title", "industry", "description", "employment_type", "date_posted"}
      [] table = "company" -> {"job_id", "name", "link"}
      [] table = "education" -> {"job_id", "required_credential"}
      [] table = "experience" -> {"job_id", "months_of_experience", "seniority_level"}
      [] table = "salary" -> {"job_id", "currency", "min_value", "max_value", "unit"}
      [] table = "location" ->
            {"job_id", "country", "locality", "region", "postal_code",
             "street_address", "latitude", "longitude"}

\* the Python types sqlite3 binds; the fields of a JSON section are strings
SqliteTypes == {"NoneType", "int", "float", "str", "bytes"}

\* sqlite_hook.run(insert_query, parameters): does the statement execute
insert_executes(cat, table, parameters) ==
    /\ table \in Range(cat)
    /\ Placeholders(table) \subseteq DOMAIN parameters
    /\ "job_id" \in Placeholders(table) => parameters["job_id"].type \in SqliteTypes

\* the row an executed INSERT adds: the bound columns and the AUTOINCREMENT id
inserted_row(tableRows, table, parameters) ==
    ("id" :> Len(tableRows) + 1) @@ [c \in Placeholders(table) |-> parameters[c]]

\* SELECT last_insert_rowid() on the connection get_first opens: that
\* connection has inserted no row
last_insert_rowid == 0

\* sqlite_hook.get_first(get_job_id_query): cursor.fetchone(), the first row
get_first_job_id == PyTuple(<<PyInt(last_insert_rowid)>>)

\* {**section, "job_id": job_id}
with_job_id(section, id) == ("job_id" :> id) @@ section

None == [type |-> "NoneType", v |-> <<>>]

(***************************************************************************)
(* The DAG: create_tables >> extract >> transform >> load, retries = 3.    *)
(***************************************************************************)
retries == 3

Tasks == <<"create_tables", "extract", "transform", "load">>

TaskIds == Range(Tasks)

Position(t) == CHOOSE i \in DOMAIN Tasks : Tasks[i] = t

\* create_tables_task >> extract() >> transform() >> load()
Upstream(t) == IF Position(t) = 1 THEN {} ELSE {Tasks[Position(t) - 1]}

\* the trigger rule all_done in place of all_success: a task runs once its
\* upstream tasks have ended, however they ended
upstream_done(t) == \A u \in Upstream(t) : ti[u].state \in {"success", "failed"}

\* a task runs once all its upstream tasks have succeeded
upstream_succeeded(t) == \A u \in Upstream(t) : ti[u].state = "success"

upstream_failed(t) == \E u \in Upstream(t) : ti[u].state \in {"failed", "upstream_failed"}

\* retries counted as the number of executions, not of re-executions
may_retry_counting_first(t) == ti[t].try_number < retries

\* a task that raised is retried while it has retries left
may_retry(t) == ti[t].try_number <= retries

Succeed(t) == [ti EXCEPT ![t].state = "success"]

Raise(t) == [ti EXCEPT ![t].state = IF may_retry(t) THEN "up_for_retry" ELSE "failed"]

Terminal == {"success", "failed", "upstream_failed"}

NoFile == FileName("", 0, "")

NoLocals == /\ lpc' = "idle"
            /\ todo' = <<>>
            /\ file_name' = NoFile
            /\ cur' = EmptyDir
            /\ job_id' = None

(***************************************************************************)
(* The initial state: a first run over some source file, an empty sink or  *)
(* one that already has the job table, an empty extracted directory, and a *)
(* transformed directory that is empty or holds one document, of no row of *)
(* the source, that lacks a section.                                       *)
(***************************************************************************)
Permutations_of(S) ==
    {q \in [1..Cardinality(S) -> S] : \A i, j \in 1..Cardinality(S) : q[i] = q[j] => i = j}

Malformed == {Without(transformed_data(<<"x">>), "location")}

InitPipeline ==
    /\ source \in Sources
    /\ run = 1
    /\ ti = [t \in TaskIds |-> [state |-> "none", try_number |-> 0]]
    /\ extracted = EmptyDir
    /\ transformed \in {EmptyDir}
          \cup {FileName("job", MaxRows, "json") :> doc : doc \in Malformed}
    /\ listing \in Permutations_of(DOMAIN transformed)
    /\ catalogue \in {<<>>, <<"job">>}
    /\ rows = [t \in Range(TABLE_CREATION_QUERIES) |-> <<>>]
    /\ lpc = "idle"
    /\ todo = <<>>
    /\ file_name = NoFile
    /\ cur = EmptyDir
    /\ job_id = None

IdleClean == /\ raw = <<>>
             /\ once = <<>>
             /\ twice = <<>>
             /\ applied = 0

Init == InitPipeline /\ IdleClean

(***************************************************************************)
(* The scheduler.                                                          *)
(***************************************************************************)
Schedule(t) ==
    /\ ti[t].state \in {"none", "up_for_retry"}
    /\ upstream_succeeded(t)
    /\ ti' = [ti EXCEPT ![t].state = "running", ![t].try_number = @ + 1]
    /\ lpc' = IF t = "load" THEN "listdir" ELSE lpc
    /\ UNCHANGED <<source, run, extracted, transformed, listing, catalogue, rows,
                   todo, file_name, cur, job_id>>
    /\ UNCHANGED cleanVars

MarkUpstreamFailed(t) ==
    /\ ti[t].state = "none"
    /\ upstream_failed(t)
    /\ ti' = [ti EXCEPT ![t].state = "upstream_failed"]
    /\ UNCHANGED <<source, run, extracted, transformed, listing, catalogue, rows,
                   lpc, todo, file_name, cur, job_id>>
    /\ UNCHANGED cleanVars

\* the next daily run; the source file may have been replaced meanwhile
NewRun ==
    /\ run < MaxRuns
    /\ \A t \in TaskIds : ti[t].state \in Terminal
    /\ run' = run + 1
    /\ source' \in Sources
    /\ ti' = [t \in TaskIds |-> [state |-> "none", try_number |-> 0]]
    /\ UNCHANGED <<extracted, transformed, listing, catalogue, rows, lpc, todo, file_name, cur, job_id>>
    /\ UNCHANGED cleanVars

(***************************************************************************)
(* The tasks.                                                              *)
(***************************************************************************)
create_tables ==
    /\ ti["create_tables"].state = "running"
    /\ LET r == run_queries(catalogue, 1)
       IN  /\ catalogue' = r.catalogue
           /\ ti' = IF r.raised THEN Raise("create_tables") ELSE Succeed("create_tables")
    /\ UNCHANGED <<source, run, extracted, transformed, listing, rows, lpc, todo, file_name, cur, job_id>>
    /\ UNCHANGED cleanVars

extract ==
    /\ ti["extract"].state = "running"
    /\ LET r == read_csv(source)
       IN  IF r.raised # ""
           THEN /\ extracted' = extracted
                /\ ti' = IF extract_catches(r.raised)
                         THEN Succeed("extract") ELSE Raise("extract")
           ELSE /\ extracted' = WriteAll(extracted, ExtractWrites(r.df))
                /\ ti' = Succeed("extract")
    /\ UNCHANGED <<source, run, transformed, listing, catalogue, rows, lpc, todo, file_name, cur, job_id>>
    /\ UNCHANGED cleanVars

transform ==
    /\ ti["transform"].state = "running"
    /\ transformed' = WriteAll(transformed, TransformWrites(extracted))
    /\ listing' \in IF DOMAIN transformed' = DOMAIN transformed THEN {listing}
                    ELSE Permutations_of(DOMAIN transformed')
    /\ ti' = Succeed("transform")
    /\ UNCHANGED <<source, run, extracted, catalogue, rows, lpc, todo, file_name, cur, job_id>>
    /\ UNCHANGED cleanVars

\* the sections looked up one by one, each right before its INSERT: only a
\* missing job section raises before the first statement
lookup_raises_for_job(data) == "job" \notin DOMAIN data

\* transformed_data['job'] ... transformed_data['location']: a missing
\* section raises KeyError before any statement is run
lookup_raises(data) == \E sec \in Sections : sec \notin DOMAIN data

\* for file_name in os.listdir(transformed_dir)
LoadList ==
    /\ ti["load"].state = "running"
    /\ lpc = "listdir"
    /\ todo' = listing
    /\ lpc' = "loop"
    /\ UNCHANGED <<source, run, ti, extracted, transformed, listing, catalogue, rows, file_name, cur, job_id>>
    /\ UNCHANGED cleanVars

\* the head of one iteration: the name filter, json.load, the six lookups;
\* after the last entry the task prints and returns
LoadOpen ==
    /\ ti["load"].state = "running"
    /\ lpc = "loop"
    /\ IF todo = <<>>
       THEN /\ ti' = Succeed("load")
            /\ NoLocals
       ELSE IF ~endswith(Head(todo), "json")
       THEN /\ todo' = Tail(todo)
            /\ UNCHANGED <<ti, lpc, file_name, cur, job_id>>
       ELSE IF lookup_raises(transformed[Head(todo)])
       THEN /\ ti' = Raise("load")
            /\ NoLocals
       ELSE /\ cur' = transformed[Head(todo)]
            /\ file_name' = Head(todo)
            /\ todo' = Tail(todo)
            /\ lpc' = "insert_job"
            /\ UNCHANGED <<ti, job_id>>
    /\ UNCHANGED <<source, run, extracted, transformed, listing, catalogue, rows>>
    /\ UNCHANGED cleanVars

\* sqlite_hook.run(insert_job_query, parameters=job_data)
LoadInsertJob ==
    /\ ti["load"].state = "running"
    /\ lpc = "insert_job"
    /\ IF insert_executes(catalogue, "job", cur["job"])
       THEN /\ rows' = [rows EXCEPT !["job"] =
                            Append(@, inserted_row(@, "job", cur["job"]))]
            /\ lpc' = "get_job_id"
            /\ UNCHANGED <<ti, todo, file_name, cur, job_id>>
       ELSE /\ ti' = Raise("load")
            /\ NoLocals
            /\ UNCHANGED rows
    /\ UNCHANGED <<source, run, extracted, transformed, listing, catalogue>>
    /\ UNCHANGED cleanVars

\* job_id = sqlite_hook.get_first("SELECT last_insert_rowid()")
LoadGetJobId ==
    /\ ti["load"].state = "running"
    /\ lpc = "get_job_id"
    /\ job_id' = get_first_job_id
    /\ lpc' = Children[1]
    /\ UNCHANGED <<source, run, ti, extracted, transformed, listing, catalogue, rows, todo, file_name, cur>>
    /\ UNCHANGED cleanVars

NextAfter(child) ==
    LET i == CHOOSE k \in DOMAIN Children : Children[k] = child
    IN  IF i < Len(Children) THEN Children[i + 1] ELSE "loop"

\* sqlite_hook.run(insert_<child>_query, parameters={**<child>_data, "job_id": job_id})
LoadInsertChild ==
    /\ ti["load"].state = "running"
    /\ lpc \in Range(Children)
    /\ LET parameters == with_job_id(cur[lpc], job_id)
       IN  IF insert_executes(catalogue, lpc, parameters)
           THEN /\ rows' = [rows EXCEPT ![lpc] =
                                Append(@, inserted_row(@, lpc, parameters))]
                /\ lpc' = NextAfter(lpc)
                /\ UNCHANGED <<ti, todo, file_name, cur, job_id>>
           ELSE /\ ti' = Raise("load")
                /\ NoLocals
                /\ UNCHANGED rows
    /\ UNCHANGED <<source, run, extracted, transformed, listing, catalogue>>
    /\ UNCHANGED cleanVars

Next ==
    \/ \E t \in TaskIds : Schedule(t)
    \/ \E t \in TaskIds : MarkUpstreamFailed(t)
    \/ NewRun
    \/ create_tables
    \/ extract
    \/ transform
    \/ LoadList
    \/ LoadOpen
    \/ LoadInsertJob
    \/ LoadGetJobId
    \/ LoadInsertChild

Spec == Init /\ [][Next]_vars

(***************************************************************************)
(* clean_description on its own: every description up to MaxLen            *)
(* characters, normalised once and then once more.                         *)
(***************************************************************************)
Alphabet == {"a", " ", "\t", "\n"}

IdlePipeline ==
    /\ source = [kind |-> "missing", df |-> [columns |-> {}, cells |-> <<>>]]
    /\ run = 1
    /\ ti = [t \in TaskIds |-> [state |-> "none", try_number |-> 0]]
    /\ extracted = EmptyDir
    /\ transformed = EmptyDir
    /\ listing = <<>>
    /\ catalogue = <<>>
    /\ rows = [t \in Range(TABLE_CREATION_QUERIES) |-> <<>>]
    /\ lpc = "idle"
    /\ todo = <<>>
    /\ file_name = NoFile
    /\ cur = EmptyDir
    /\ job_id = None

InitClean ==
    /\ IdlePipeline
    /\ raw \in SeqsUpTo(Alphabet, MaxLen)
    /\ once = <<>>
    /\ twice = <<>>
    /\ applied = 0

CleanOnce ==
    /\ applied = 0
    /\ once' = clean_description(raw)
    /\ applied' = 1
    /\ UNCHANGED <<raw, twice>>
    /\ UNCHANGED pipeVars

CleanTwice ==
    /\ applied = 1
    /\ twice' = clean_description(once)
    /\ applied' = 2
    /\ UNCHANGED <<raw, once>>
    /\ UNCHANGED pipeVars

NextClean == CleanOnce \/ CleanTwice

SpecClean == InitClean /\ [][NextClean]_vars

(***************************************************************************)
(* Vocabulary of the properties.                                           *)
(***************************************************************************)
Executed == {"running", "success", "up_for_retry", "failed"}

\* the tasks before t in the chain
Predecessors(t) == {Tasks[i] : i \in 1..(Position(t) - 1)}

Successors(t) == {Tasks[i] : i \in (Position(t) + 1)..Len(Tasks)}

\* task t begins an execution in this step
Starts(t) == ti[t].state # "running" /\ ti'[t].state = "running"

\* an execution of task t ends in this step
Ends(t) == ti[t].state = "running" /\ ti'[t].state # "running"

NRows == Len(source.df.cells)

\* the text form of a cell of the source table
TextOf(cell) == CASE cell.type = "str" -> cell.v
                  [] cell = PyInt(42) -> <<"4", "2">>
                  [] cell = PyNaN -> <<"n", "a", "n">>

Incomplete(doc) == Sections \ DOMAIN doc # {}

JsonFiles == {f \in DOMAIN transformed : f[3] = "json"}

ChildRows(table, id) == {i \in DOMAIN rows[table] : rows[table][i].job_id = PyInt(id)}

\* C1: every job row the Loader has inserted and moved on from has exactly
\* one row in each of the five child tables, carrying the job row's id as
\* job_id, and every child row refers to a job row that is in the sink.
C1_ChildrenCarryJobId ==
    /\ \A c \in Range(Children) : \A i \in DOMAIN rows[c] :
          \E j \in DOMAIN rows["job"] : rows[c][i].job_id = PyInt(rows["job"][j].id)
    /\ lpc \in {"idle", "listdir", "loop"} =>
          \A j \in DOMAIN rows["job"] : \A c \in Range(Children) :
              Cardinality(ChildRows(c, rows["job"][j].id)) = 1

\* C2: a task begins an execution only when every task before it in the
\* chain create_tables, extract, transform, load has succeeded and it has
\* itself neither succeeded nor finally failed in this run; a task that was
\* not run because a predecessor failed is never run.
C2_LinearOrder ==
    [][\A t \in TaskIds :
          Starts(t) => /\ \A u \in Predecessors(t) : ti[u].state = "success"
                       /\ ti[t].state \in {"none", "up_for_retry"}
                       /\ \A d \in Successors(t) : ti[d].state = "none"]_vars

C2_Witness == /\ ti["load"].state = "running"
              /\ \A u \in Predecessors("load") : ti[u].state = "success"

\* C3 as claimed: no task is executed more than 3 times in one run.
C3_AtMostThreeExecutions == \A t \in TaskIds : ti[t].try_number <= 3

\* C3 as amended: no task is executed more than retries + 1 = 4 times in one
\* run; a task is marked failed only after its 4th execution, and no task
\* downstream of a failed task is executed.
C3_RetriesThenFailed ==
    \A t \in TaskIds :
        /\ ti[t].try_number <= retries + 1
        /\ ti[t].state = "failed" =>
              /\ ti[t].try_number = retries + 1
              /\ \A d \in Successors(t) : /\ ti[d].state \in {"none", "upstream_failed"}
                                          /\ ti[d].try_number = 0

C3_Witness == /\ ti["extract"].state = "failed"
              /\ ti["extract"].try_number = 4
              /\ ti["load"].state = "upstream_failed"

\* C4: with the source file missing, an execution of extract ends in
\* success on its first try and leaves the extracted directory as it was;
\* no task of the run is skipped for an upstream failure, transform can be
\* scheduled once extract has ended and load once transform has ended.
C4_MissingSourceTolerated ==
    /\ [][source.kind = "missing" =>
          /\ Ends("extract") => /\ ti'["extract"].state = "success"
                                /\ ti'["extract"].try_number = 1
                                /\ extracted' = extracted
          /\ \A t \in TaskIds : ti'[t].state # "upstream_failed"
          /\ Ends("transform") => ti'["transform"].state = "success"]_vars
    /\ [](source.kind = "missing" =>
            /\ (ti["extract"].state = "success" /\ ti["transform"].state = "none")
                  => ENABLED Schedule("transform")
            /\ (ti["transform"].state = "success" /\ ti["load"].state = "none")
                  => ENABLED Schedule("load"))

C4_Witness == /\ source.kind = "missing"
              /\ ti["extract"].state = "success"
              /\ ti["load"].state \in Executed

\* C5: an execution of extract over a readable source of n rows succeeds,
\* leaves job_0.txt .. job_(n-1).txt holding the text form of the context of
\* the rows at positions 0 .. n-1 (the empty text when the table has no
\* context column), and creates or changes no other file.
C5_OneArtifactPerRow ==
    [][(Ends("extract") /\ source.kind = "csv") =>
          /\ ti'["extract"].state = "success"
          /\ \A i \in 1..NRows :
                /\ <<"job", i - 1, "txt">> \in DOMAIN extracted'
                /\ extracted'[<<"job", i - 1, "txt">>] =
                      IF "context" \in source.df.columns
                      THEN TextOf(source.df.cells[i]) ELSE <<>>
          /\ \A f \in DOMAIN extracted' :
                (f \notin DOMAIN extracted \/ extracted'[f] # extracted[f])
                    => f \in {<<"job", i - 1, "txt">> : i \in 1..NRows}
          /\ DOMAIN extracted \subseteq DOMAIN extracted']_vars

C5_Witness == /\ ti["extract"].state = "success"
              /\ source.kind = "csv"
              /\ NRows = 2
              /\ source.df.cells[2] = PyInt(42)
              /\ DOMAIN extracted = {<<"job", 0, "txt">>, <<"job", 1, "txt">>}
              /\ extracted[<<"job", 1, "txt">>] = <<"4", "2">>

\* C6: every execution of create_tables, whatever tables and rows the sink
\* holds, ends in success with the sink holding each of the six tables
\* exactly once and no other, and with every row as it was.
C6_CreateTablesIdempotent ==
    [][Ends("create_tables") =>
          /\ ti'["create_tables"].state = "success"
          /\ Len(catalogue') = 6
          /\ \A name \in {"job", "company", "education", "experience", "salary", "location"} :
                Cardinality({i \in DOMAIN catalogue' : catalogue'[i] = name}) = 1
          /\ rows' = rows]_vars

C6_Witness == /\ run = 2
              /\ ti["create_tables"].state = "success"
              /\ Len(catalogue) = 6
              /\ rows["job"] # <<>>

\* load is at an entry of the transformed directory that lacks a section
MeetsIncomplete == /\ ti["load"].state = "running"
                   /\ lpc = "loop"
                   /\ todo # <<>>
                   /\ Head(todo)[3] = "json"
                   /\ Incomplete(transformed[Head(todo)])

\* C7: when Load comes to an artifact that lacks a section, that step ends
\* the execution as a failure with the sink's rows exactly as they were, so
\* with no row for the artifact and no row taken back; no row is inserted
\* while Load is not executing, so none for the artifacts after it.
C7_IncompleteArtifactAborts ==
    /\ [][MeetsIncomplete => /\ ti'["load"].state \in {"up_for_retry", "failed"}
                             /\ rows' = rows]_vars
    /\ [][ti["load"].state # "running" => rows' = rows]_vars

C7_Witness == /\ ti["load"].state \in {"up_for_retry", "failed"}
              /\ listing # <<>>
              /\ Incomplete(transformed[Head(listing)])
              /\ Len(listing) > 1
              /\ rows["job"] # <<>>

\* C8: in the first run over a directory of n complete artifacts, once k
\* executions of Load have ended the sink holds k * n rows in the job table
\* and k * n rows in each child table (each execution inserts every record
\* again).
C8_EveryExecutionInsertsAll ==
    (/\ run = 1
     /\ ti["load"].state \in {"success", "up_for_retry", "failed"}
     /\ \A f \in JsonFiles : ~Incomplete(transformed[f]))
    => \A t \in {"job", "company", "education", "experience", "salary", "location"} :
          Len(rows[t]) = ti["load"].try_number * Cardinality(JsonFiles)

\* C10: every record a run's Load inserts is the artifact of a row of that
\* run's source file: while Load is inserting the rows of job_<i>.json the
\* source file is readable and has more than i rows.
C10_OnlyRowsOfThisRun ==
    lpc \notin {"idle", "listdir", "loop"} =>
        /\ source.kind = "csv"
        /\ file_name[2] < NRows

(***************************************************************************)
(* Properties of clean_description, under SpecClean.                       *)
(***************************************************************************)
\* C9: normalising a normalised description returns it unchanged, and a
\* description of whitespace only (the empty one included) normalises to
\* the empty description.
C9_CleanIdempotent ==
    /\ applied = 2 => twice = once
    /\ (applied >= 1 /\ \A i \in DOMAIN raw : raw[i] \in {" ", "\t", "\n"}) => once = <<>>

C9_Witness == /\ applied = 2
              /\ raw = <<"\t", "a", " ">>
              /\ once = <<"a">>
              /\ twice = <<"a">>

====
